---------------------------- MODULE Spec2Model ----------------------------
(***************************************************************************)
(* bevy_letterboxes (src/src/main.rs): a sprite that bounces horizontally  *)
(* (move_sample_object) and two letterbox sprites plus the camera          *)
(* projection that follow the primary window's size                        *)
(* (change_camera_scaling).                                                *)
(*                                                                         *)
(* Every number the program computes with is an f32.  An f32 is modelled   *)
(* exactly: a record [m, e] standing for m * 2^e with m = 0 (and e = 0) or *)
(* 2^23 <= |m| < 2^24, and +, -, / round to nearest, ties to even, as the  *)
(* hardware does.  Only finite normal values occur for the window sizes    *)
(* the model enumerates (positive sizes; no overflow, no subnormals).      *)
(***************************************************************************)
EXTENDS Integers, Sequences, FiniteSets, TLC

\* ------------------------------------------------------------------ f32
\* The arithmetic is written as functions, which are applied to values:
\* an operand is evaluated once, however often the body uses it.

\* Number of significant binary digits of an f32 (f32::MANTISSA_DIGITS).
MANTISSA_DIGITS == 24

\* Quotient bits the long division takes per step (a remainder below 2^24
\* times 2^7 stays below 2^31) and the steps it takes: 28 bits behind the
\* binary point, 4 more than the mantissa holds.
DivStepBits == 31 - MANTISSA_DIGITS

DivSteps == (MANTISSA_DIGITS + DivStepBits - 1) \div DivStepBits

GuardBits == DivSteps * DivStepBits

\* Left shift applied to the operand of larger exponent before an addition
\* (the widest that keeps the aligned sum below 2^31).
AlignBits == 30 - MANTISSA_DIGITS

Abs(n) == IF n < 0 THEN -n ELSE n

Sign(n) == IF n < 0 THEN -1 ELSE IF n > 0 THEN 1 ELSE 0

BitLen[n \in Nat] == IF n = 0 THEN 0 ELSE 1 + BitLen[n \div 2]

\* The values of type f32 as the model holds them.
F32Values == [m : Int, e : Int]

F32Zero == [m |-> 0, e |-> 0]

\* The f32 nearest to sign * (n + f) * 2^e, where n > 0 is an integer and
\* 0 < f < 1 if sticky, f = 0 otherwise (ties to even).  When n has at most
\* MANTISSA_DIGITS bits the value must be exact (sticky = FALSE).
F32Round[sign \in {-1, 0, 1}, n \in Nat, e \in Int, sticky \in BOOLEAN] ==
    IF n = 0 THEN F32Zero
    ELSE LET len == BitLen[n] IN
         IF len <= MANTISSA_DIGITS
         THEN [m |-> sign * n * 2^(MANTISSA_DIGITS - len),
               e |-> e - (MANTISSA_DIGITS - len)]
         ELSE LET k    == len - MANTISSA_DIGITS
                  q    == n \div 2^k
                  r    == n % 2^k
                  half == 2^(k - 1)
                  up   == r > half \/ (r = half /\ (sticky \/ q % 2 = 1))
                  q1   == IF up THEN q + 1 ELSE q
              IN  IF q1 = 2^MANTISSA_DIGITS
                  THEN [m |-> sign * 2^(MANTISSA_DIGITS - 1), e |-> e + k + 1]
                  ELSE [m |-> sign * q1, e |-> e + k]

\* An integer literal or an `as f32` conversion of an integer below 2^24.
F32(n) == F32Round[Sign(n), Abs(n), 0, FALSE]

\* -a on f32.
F32Neg(a) == [m |-> -a.m, e |-> a.e]

\* k steps of the long division of r by d (0 <= r < d), DivStepBits
\* further binary digits of the quotient each: <<quotient, remainder>>.
LongDiv[q \in Nat, r \in Nat, d \in Nat, k \in Nat] ==
    IF k = 0 THEN <<q, r>>
    ELSE LongDiv[q * 2^DivStepBits + (r * 2^DivStepBits) \div d,
                 (r * 2^DivStepBits) % d, d, k - 1]

F32DivValues[a \in F32Values, b \in F32Values] ==
    IF a.m = 0 THEN F32Zero
    ELSE LET na == Abs(a.m)
             nb == Abs(b.m)
             qr == LongDiv[na \div nb, na % nb, nb, DivSteps]
         IN  F32Round[Sign(a.m) * Sign(b.m), qr[1], a.e - b.e - GuardBits,
                      qr[2] # 0]

\* a / b on f32, b # 0.
F32Div(a, b) == F32DivValues[a, b]

F32AddValues[a \in F32Values, b \in F32Values] ==
    IF a.m = 0 THEN b
    ELSE IF b.m = 0 THEN a
    ELSE LET hi == IF a.e >= b.e THEN a ELSE b
             lo == IF a.e >= b.e THEN b ELSE a
             d  == hi.e - lo.e
         IN  IF d <= AlignBits
             THEN LET n == hi.m * 2^d + lo.m
                  IN  F32Round[Sign(n), Abs(n), lo.e, FALSE]
             ELSE LET s      == d - AlignBits
                      big    == Abs(hi.m) * 2^AlignBits
                      small  == IF s > MANTISSA_DIGITS THEN 0
                                ELSE Abs(lo.m) \div 2^s
                      sticky == IF s > MANTISSA_DIGITS THEN TRUE
                                ELSE Abs(lo.m) % 2^s # 0
                      n      == IF Sign(hi.m) = Sign(lo.m) THEN big + small
                                ELSE IF sticky THEN big - small - 1
                                ELSE big - small
                  IN  F32Round[Sign(hi.m), n, hi.e - AlignBits, sticky]

\* a + b on f32.
F32Add(a, b) == F32AddValues[a, b]

\* a - b on f32.
F32Sub(a, b) == F32Add(a, F32Neg(b))

F32LtValues[a \in F32Values, b \in F32Values] ==
    IF Sign(a.m) # Sign(b.m) THEN Sign(a.m) < Sign(b.m)
    ELSE IF a.m = 0 THEN FALSE
    ELSE IF a.e # b.e THEN (IF a.m > 0 THEN a.e < b.e ELSE a.e > b.e)
    ELSE a.m < b.m

\* a < b on f32.
F32Lt(a, b) == F32LtValues[a, b]

\* a > b on f32.
F32Gt(a, b) == F32Lt(b, a)


\* --------------------------------------------------------------- state

\* ScreenUnits inserted by main(): width 20.0, height 15.0.
ScreenWidth == 20

ScreenHeight == 15

ScreenUnits == [width |-> F32(ScreenWidth), height |-> F32(ScreenHeight)]

\* Window sizes (width, height) in pixels that WindowResized events carry:
\* wider than the viewport, narrower (two of them) and of the same aspect.
WindowSizes == {<<1600, 900>>, <<900, 1600>>, <<800, 600>>, <<600, 800>>}

\* A WindowResized event: whether window.id.is_primary(), width, height.
WindowResizedEvent(primary, size) ==
    [primary |-> primary, width |-> F32(size[1]), height |-> F32(size[2])]

EventInputs == {WindowResizedEvent(p, s) : p \in BOOLEAN, s \in WindowSizes}

\* No event: the loop of change_camera_scaling ended without a match.
NoWindow == [primary |-> FALSE, width |-> F32Zero, height |-> F32Zero]

\* Most resize events that may be pending at once.
MaxEvents == 2

VARIABLES
    direction,      \* SampleObject.direction (i32)
    translation,    \* the sample object's Transform.translation (x, y, z)
    letterboxes,    \* Letterbox.id -> its Transform (scale, translation)
    projection,     \* the camera's OrthographicProjection (mode, scale)
    cameras,        \* number of entities with an OrthographicProjection
    resize_events,  \* events the EventReader<WindowResized> has not read
    last_run,       \* what the loop of the latest change_camera_scaling did
    panicked        \* a system has panicked: the app is gone

vars == <<direction, translation, letterboxes, projection, cameras,
          resize_events, last_run, panicked>>

\* OrthographicCameraBundle::new_2d(): the engine's default projection.
DefaultProjection == [scaling_mode |-> "WindowSize", scale |-> F32(1)]

\* spawn_letterbox: scale (0, 0, 999), default translation.
SpawnLetterbox(id) ==
    [scale |-> <<F32(0), F32(0), F32(999)>>,
     translation |-> <<F32(0), F32(0), F32(0)>>]

IdleRun == [skipped |-> 0, window |-> NoWindow, later |-> 0,
            later_primary |-> 0]

\* The world after the startup systems setup_camera, spawn_sample_object
\* and spawn_letterboxes.
Init ==
    /\ direction = 1
    /\ translation = <<F32(0), F32(0), F32(10)>>
    /\ letterboxes = [id \in {0, 1} |-> SpawnLetterbox(id)]
    /\ projection = DefaultProjection
    /\ cameras = 1
    /\ resize_events = <<>>
    /\ last_run = IdleRun
    /\ panicked = FALSE

\* ----------------------------------------------------- bounce motion

\* (screen_units.width + 4.0) / 2.0
SafeAreaLimitUnhalved == F32Add(ScreenUnits.width, F32(4))

SafeAreaLimitInside == F32Div(F32Sub(ScreenUnits.width, F32(4)), F32(2))

SafeAreaLimit == F32Div(F32Add(ScreenUnits.width, F32(4)), F32(2))

\* -(screen_units.width + 4.0) / 2.0
NegSafeAreaLimit == F32Div(F32Neg(F32Add(ScreenUnits.width, F32(4))), F32(2))

OutsideSafeAreaNonStrict(x) ==
    ~F32Lt(x, SafeAreaLimit) \/ ~F32Gt(x, NegSafeAreaLimit)

\* The condition of the `if` in move_sample_object.
OutsideSafeArea(x) ==
    F32Gt(x, SafeAreaLimit) \/ F32Lt(x, NegSafeAreaLimit)

\* object.direction *= -1, when outside the safe area.
FlipDirection(x, d) == IF OutsideSafeArea(x) THEN d * (-1) ELSE d

\* transform.translation[0] += object.direction as f32 / 6.0
ApplyMovement(x, d) == F32Add(x, F32Div(F32(d), F32(6)))

\* One run of the system move_sample_object on the sample object.
MoveSampleObject ==
    /\ ~panicked
    /\ direction' = FlipDirection(translation[1], direction)
    /\ translation' =
         [translation EXCEPT ![1] = ApplyMovement(translation[1], direction')]
    /\ UNCHANGED <<letterboxes, projection, cameras, resize_events, last_run,
                   panicked>>

\* ----------------------------------------------------- resize handler

\* The window sends a WindowResized event.
WindowResized(event) ==
    /\ ~panicked
    /\ Len(resize_events) < MaxEvents
    /\ resize_events' = Append(resize_events, event)
    /\ UNCHANGED <<direction, translation, letterboxes, projection, cameras,
                   last_run, panicked>>

\* set_letterbox
SetLetterbox(width, height, x_pos, y_pos) ==
    [scale |-> <<width, height, F32(1)>>,
     translation |-> <<x_pos, y_pos, F32(999)>>]

SetLetterboxesVerticalUnmirrored(boxes, window) ==
    LET units_per_pixel   == F32Div(window.height, ScreenUnits.height)
        window_unit_width == F32Div(window.width, units_per_pixel)
        letterbox_width   ==
            F32Div(F32Sub(window_unit_width, ScreenUnits.width), F32(2))
        letterbox_pos_x   ==
            F32Div(F32Add(letterbox_width, ScreenUnits.width), F32(2))
    IN  [id \in DOMAIN boxes |->
            SetLetterbox(letterbox_width, ScreenUnits.height,
                         letterbox_pos_x, F32(0))]

SetLetterboxesVerticalWrongAxis(boxes, window) ==
    LET units_per_pixel   == F32Div(window.height, ScreenUnits.height)
        window_unit_width == F32Div(window.width, units_per_pixel)
        letterbox_width   ==
            F32Div(F32Sub(window_unit_width, ScreenUnits.width), F32(2))
        letterbox_pos_x   ==
            F32Div(F32Add(letterbox_width, ScreenUnits.height), F32(2))
    IN  [id \in DOMAIN boxes |->
            IF id = 0
            THEN SetLetterbox(letterbox_width, ScreenUnits.height,
                              letterbox_pos_x, F32(0))
            ELSE IF id = 1
            THEN SetLetterbox(letterbox_width, ScreenUnits.height,
                              F32Neg(letterbox_pos_x), F32(0))
            ELSE boxes[id]]

\* set_letterboxes_vertical: bars left and right.
SetLetterboxesVertical(boxes, window) ==
    LET units_per_pixel   == F32Div(window.height, ScreenUnits.height)
        window_unit_width == F32Div(window.width, units_per_pixel)
        letterbox_width   ==
            F32Div(F32Sub(window_unit_width, ScreenUnits.width), F32(2))
        letterbox_pos_x   ==
            F32Div(F32Add(letterbox_width, ScreenUnits.width), F32(2))
    IN  [id \in DOMAIN boxes |->
            IF id = 0
            THEN SetLetterbox(letterbox_width, ScreenUnits.height,
                              letterbox_pos_x, F32(0))
            ELSE IF id = 1
            THEN SetLetterbox(letterbox_width, ScreenUnits.height,
                              F32Neg(letterbox_pos_x), F32(0))
            ELSE boxes[id]]

\* set_letterboxes_horizontal: bars top and bottom.
SetLetterboxesHorizontal(boxes, window) ==
    LET units_per_pixel   == F32Div(window.width, ScreenUnits.width)
        window_unit_hight == F32Div(window.height, units_per_pixel)
        letterbox_height  ==
            F32Div(F32Sub(window_unit_hight, ScreenUnits.height), F32(2))
        letterbox_pos_y   ==
            F32Div(F32Add(letterbox_height, ScreenUnits.height), F32(2))
    IN  [id \in DOMAIN boxes |->
            IF id = 0
            THEN SetLetterbox(ScreenUnits.width, letterbox_height,
                              F32(0), letterbox_pos_y)
            ELSE IF id = 1
            THEN SetLetterbox(ScreenUnits.width, letterbox_height,
                              F32(0), F32Neg(letterbox_pos_y))
            ELSE boxes[id]]

NewScalingModeLe(window) ==
    IF ~F32Gt(F32Div(window.width, window.height),
              F32Div(ScreenUnits.width, ScreenUnits.height))
    THEN "FixedHorizontal"
    ELSE "FixedVertical"

\* new_scaling_mode: FixedVertical unless the window is relatively narrower.
NewScalingMode(window) ==
    IF F32Lt(F32Div(window.width, window.height),
             F32Div(ScreenUnits.width, ScreenUnits.height))
    THEN "FixedHorizontal"
    ELSE "FixedVertical"

NewScaleNotReassigned(window) == ScreenUnits.height

\* new_scale: the height, reassigned to the width with the mode.
NewScale(window) ==
    IF F32Lt(F32Div(window.width, window.height),
             F32Div(ScreenUnits.width, ScreenUnits.height))
    THEN ScreenUnits.width
    ELSE ScreenUnits.height

\* The `match new_scaling_mode` of change_camera_scaling.
MatchScalingMode(boxes, window) ==
    IF NewScalingMode(window) = "FixedVertical"
    THEN SetLetterboxesVertical(boxes, window)
    ELSE SetLetterboxesHorizontal(boxes, window)

FirstEventIndex(events, i) ==
    IF i > Len(events) THEN 0 ELSE i

RECURSIVE LastPrimaryIndex(_, _)
LastPrimaryIndex(events, i) ==
    IF i > Len(events) THEN 0
    ELSE LET rest == LastPrimaryIndex(events, i + 1)
         IN  IF rest # 0 THEN rest
             ELSE IF events[i].primary THEN i ELSE 0

\* The `for` loop over resize_events.iter() from position i: the index of the
\* event it breaks on, 0 when it runs to the end.
RECURSIVE FirstPrimaryIndex(_, _)
FirstPrimaryIndex(events, i) ==
    IF i > Len(events) THEN 0
    ELSE IF events[i].primary = TRUE THEN i
    ELSE FirstPrimaryIndex(events, i + 1)

NeverPanics(n) == FALSE

\* orthographic_projection_query.iter_mut().next().unwrap() panics on None.
UnwrapPanics(n) == n = 0

\* The camera's projection after "Change the camera's values".
ChangeCameraValues(window) ==
    [scaling_mode |-> NewScalingMode(window),
     scale |-> F32Div(NewScale(window), F32(2))]

\* What one run of the loop did: events passed over before the break, the
\* event it broke on, events (and primary events) behind it in the batch.
RunOf(events, i) ==
    IF i = 0
    THEN [skipped |-> Len(events), window |-> NoWindow, later |-> 0,
          later_primary |-> 0]
    ELSE [skipped |-> i - 1, window |-> events[i],
          later |-> Len(events) - i,
          later_primary |->
              Cardinality({j \in (i + 1)..Len(events) : events[j].primary})]

\* The events still unread after the loop ended at index i (0: ran to the
\* end).  Whether the events behind a `break` count as read is the engine's
\* EventReader: both outcomes are allowed.
UnreadAfter(events, i) ==
    IF i = 0 THEN {<<>>}
    ELSE {<<>>, SubSeq(events, i + 1, Len(events))}

\* One run of the system change_camera_scaling.
ChangeCameraScaling ==
    /\ ~panicked
    /\ LET i == FirstPrimaryIndex(resize_events, 1) IN
       /\ last_run' = RunOf(resize_events, i)
       /\ resize_events' \in UnreadAfter(resize_events, i)
       /\ IF i = 0
          THEN UNCHANGED <<letterboxes, projection, panicked>>
          ELSE /\ letterboxes' = MatchScalingMode(letterboxes, resize_events[i])
               /\ IF UnwrapPanics(cameras)
                  THEN panicked' = TRUE /\ UNCHANGED projection
                  ELSE /\ projection' = ChangeCameraValues(resize_events[i])
                       /\ UNCHANGED panicked
    /\ UNCHANGED <<direction, translation, cameras>>

\* ------------------------------------------------------ specifications

NextResize ==
    \/ \E event \in EventInputs : WindowResized(event)
    \/ ChangeCameraScaling

Next ==
    \/ \E event \in EventInputs : WindowResized(event)
    \/ ChangeCameraScaling
    \/ MoveSampleObject

\* The app: both systems run every frame, resize events arrive in between.
Spec == Init /\ [][Next]_vars

\* The resize handler alone (it shares no component with the sample object).
SpecResize == Init /\ [][NextResize]_vars

\* The sample object alone, from its spawned state.
SpecMotion == Init /\ [][MoveSampleObject]_vars

\* The same, with the system run every frame.
FairMotion == SpecMotion /\ WF_vars(MoveSampleObject)


\* Positions (whole units) and directions a tick is tried on.
MaxPosition == 13

PositionInputs == {F32(n) : n \in (-MaxPosition)..MaxPosition}

\* A sample object anywhere in or around the safe area, in either direction.
InitTick ==
    /\ direction \in {-1, 1}
    /\ translation \in {<<x, F32(0), F32(10)>> : x \in PositionInputs}
    /\ letterboxes = [id \in {0, 1} |-> SpawnLetterbox(id)]
    /\ projection = DefaultProjection
    /\ cameras = 1
    /\ resize_events = <<>>
    /\ last_run = IdleRun
    /\ panicked = FALSE

\* move_sample_object as a function of the object's position and direction.
SpecTick == InitTick /\ [][MoveSampleObject]_vars

\* A world the camera query of change_camera_scaling may find empty.
InitWorld ==
    /\ direction = 1
    /\ translation = <<F32(0), F32(0), F32(10)>>
    /\ letterboxes = [id \in {0, 1} |-> SpawnLetterbox(id)]
    /\ projection = DefaultProjection
    /\ cameras \in {0, 1}
    /\ resize_events = <<>>
    /\ last_run = IdleRun
    /\ panicked = FALSE

\* change_camera_scaling as a function of the world its queries see.
SpecWorld == InitWorld /\ [][NextResize]_vars

\* ------------------------------------------------------------ properties

\* The value of a as a multiple of 2^-24 (0 or 1/2 <= |a| < 128).
Fix(a) == IF a.m = 0 THEN 0 ELSE a.m * 2^(a.e + MANTISSA_DIGITS)

FixOne == 2^MANTISSA_DIGITS

Primaries(events) == {i \in 1..Len(events) : events[i].primary}

FirstPrimary(events) ==
    CHOOSE i \in Primaries(events) : \A j \in Primaries(events) : i <= j

\* A step of change_camera_scaling that read at least one event: no other
\* step takes events away.
HandlerStep == Len(resize_events') < Len(resize_events)

\* ... and that found a primary-window event.
Processed == HandlerStep /\ Primaries(resize_events) # {}

SizeOf(event) ==
    CHOOSE s \in WindowSizes :
        event.width = F32(s[1]) /\ event.height = F32(s[2])

Primary(size) == WindowResizedEvent(TRUE, size)

\* C1: a processed primary event (w, h) with w/h >= vw/vh sets the camera to
\* FixedVertical with scale vh/2, one with w/h < vw/vh to FixedHorizontal
\* with scale vw/2; mode and scale come from the same branch.
C1_ModeAndScale ==
    [][Processed =>
        LET s == SizeOf(resize_events[FirstPrimary(resize_events)])
        IN  IF s[1] * ScreenHeight >= ScreenWidth * s[2]
            THEN projection' =
                   [scaling_mode |-> "FixedVertical",
                    scale |-> F32Div(F32(ScreenHeight), F32(2))]
            ELSE projection' =
                   [scaling_mode |-> "FixedHorizontal",
                    scale |-> F32Div(F32(ScreenWidth), F32(2))]]_vars

C1_Witness ==
    /\ last_run.window \in {Primary(<<900, 1600>>), Primary(<<600, 800>>)}
    /\ projection = [scaling_mode |-> "FixedHorizontal", scale |-> F32(10)]

\* The reference geometry of C2: <<size, position of letterbox 0, position
\* of letterbox 1>> for a window of w by h.
RefVertical(w, h) ==
    LET vw  == F32(ScreenWidth)
        vh  == F32(ScreenHeight)
        pad == F32Div(F32Sub(F32Div(w, F32Div(h, vh)), vw), F32(2))
        x   == F32Div(F32Add(pad, vw), F32(2))
    IN  <<(<<pad, vh>>), (<<x, F32Zero>>), (<<F32Neg(x), F32Zero>>)>>

RefHorizontal(w, h) ==
    LET vw  == F32(ScreenWidth)
        vh  == F32(ScreenHeight)
        pad == F32Div(F32Sub(F32Div(h, F32Div(w, vw)), vh), F32(2))
        y   == F32Div(F32Add(pad, vh), F32(2))
    IN  <<(<<vw, pad>>), (<<F32Zero, y>>), (<<F32Zero, F32Neg(y)>>)>>

Size2(box) == <<box.scale[1], box.scale[2]>>

Pos2(box) == <<box.translation[1], box.translation[2]>>

\* |3 * a - n| <= 3 * 2^-20: a is n/3 to within 2^-20.
NearThird(a, n) ==
    /\ 3 * Fix(a) - n * FixOne <= 48
    /\ n * FixOne - 3 * Fix(a) <= 48

\* C2: after a primary event (w, h) is processed the letterboxes have the
\* reference geometry of the chosen mode (f32 arithmetic, in the order the
\* claim writes it); for viewport (20, 15) and window (1600, 900) that is
\* pad 10/3, size (pad, 15), x = +-35/3, to within f32 rounding.
C2_ReferenceGeometry ==
    [][Processed =>
        LET e   == resize_events[FirstPrimary(resize_events)]
            ref == IF projection'.scaling_mode = "FixedVertical"
                   THEN RefVertical(e.width, e.height)
                   ELSE RefHorizontal(e.width, e.height)
        IN  /\ projection'.scaling_mode \in {"FixedVertical", "FixedHorizontal"}
            /\ Size2(letterboxes'[0]) = ref[1]
            /\ Size2(letterboxes'[1]) = ref[1]
            /\ Pos2(letterboxes'[0]) = ref[2]
            /\ Pos2(letterboxes'[1]) = ref[3]
            /\ e = Primary(<<1600, 900>>) =>
                 /\ projection'.scaling_mode = "FixedVertical"
                 /\ NearThird(letterboxes'[0].scale[1], 10)
                 /\ letterboxes'[0].scale[2] = F32(15)
                 /\ NearThird(letterboxes'[0].translation[1], 35)
                 /\ NearThird(letterboxes'[1].translation[1], -35)]_vars

C2_Witness ==
    /\ last_run.window = Primary(<<1600, 900>>)
    /\ NearThird(letterboxes[0].scale[1], 10)
    /\ NearThird(letterboxes[0].translation[1], 35)
    /\ NearThird(letterboxes[1].translation[1], -35)

\* What change_camera_scaling makes of a batch of events, given the
\* letterboxes it finds: <<projection, letterboxes>>, or "unchanged".
Outcome(events, boxes) ==
    LET i == FirstPrimaryIndex(events, 1)
    IN  IF i = 0 THEN "unchanged"
        ELSE <<ChangeCameraValues(events[i]),
               MatchScalingMode(boxes, events[i])>>

\* C3: a batch of non-primary events only changes neither the camera nor
\* the letterboxes, and the non-primary events in front of a primary event
\* do not influence the result: it is that of the batch without them.
C3_NonPrimaryIgnored ==
    [][HandlerStep =>
        IF Primaries(resize_events) = {}
        THEN UNCHANGED <<projection, letterboxes>>
        ELSE <<projection', letterboxes'>> =
               Outcome(SubSeq(resize_events, FirstPrimary(resize_events),
                              Len(resize_events)), letterboxes)]_vars

C3_Witness ==
    /\ last_run.skipped >= 1
    /\ last_run.window = NoWindow
    /\ projection = DefaultProjection
    /\ letterboxes = [id \in {0, 1} |-> SpawnLetterbox(id)]

\* C4: one invocation processes only the first primary event of its batch:
\* camera and letterboxes afterwards are those computed from that event
\* alone, whatever follows it in the batch.
C4_FirstPrimaryOnly ==
    [][Processed =>
        <<projection', letterboxes'>> =
            Outcome(<<resize_events[FirstPrimary(resize_events)]>>,
                    letterboxes)]_vars

C4_Witness ==
    /\ last_run.window = Primary(<<1600, 900>>)
    /\ last_run.later_primary = 1
    /\ resize_events = <<Primary(<<900, 1600>>)>>
    /\ projection.scaling_mode = "FixedVertical"
    /\ Size2(letterboxes[0]) = RefVertical(F32(1600), F32(900))[1]

\* C5: a processed primary event whose w/h equals vw/vh exactly takes the
\* fixed-vertical branch with pad = 0: both letterboxes get size (0, vh).
C5_EqualAspect ==
    [][Processed =>
        LET s == SizeOf(resize_events[FirstPrimary(resize_events)])
        IN  s[1] * ScreenHeight = ScreenWidth * s[2] =>
              /\ projection'.scaling_mode = "FixedVertical"
              /\ \A id \in {0, 1} :
                    Size2(letterboxes'[id]) = <<F32Zero, F32(ScreenHeight)>>]_vars

C5_Witness ==
    /\ last_run.window = Primary(<<800, 600>>)
    /\ projection.scaling_mode = "FixedVertical"
    /\ \A id \in {0, 1} : letterboxes[id].scale = <<F32Zero, F32(15), F32(1)>>

\* The flip threshold (viewport_width + 4) / 2, a whole number.
Threshold == (ScreenWidth + 4) \div 2

\* C6: one tick flips the direction exactly when p > (vw + 4)/2 or
\* p < -(vw + 4)/2 (strictly), and then moves the object by direction/6
\* (f32: p + (direction as f32 / 6.0)) with the direction after the flip.
C6_OneTick ==
    [][LET p     == translation[1]
           flips == F32Gt(p, F32(Threshold)) \/ F32Lt(p, F32(-Threshold))
       IN  /\ direction \in {-1, 1}
           /\ direction' = IF flips THEN -direction ELSE direction
           /\ translation'[1] = F32Add(p, F32Div(F32(direction'), F32(6)))
           /\ translation'[2] = translation[2]
           /\ translation'[3] = translation[3]]_vars

\* Reached only by a tick from p = (vw + 4)/2 or one f32 next to it, moving
\* right without a flip.
C6_Witness ==
    /\ direction = 1
    /\ translation[1] = F32Add(F32(Threshold), F32Div(F32(1), F32(6)))

\* C7: ticking forever from the spawned state, the object reverses again
\* and again and leaves the visible area again and again on either side.
C7_BouncesForever ==
    /\ []<>(direction = 1)
    /\ []<>(direction = -1)
    /\ []<>F32Gt(translation[1], F32Div(F32(ScreenWidth), F32(2)))
    /\ []<>F32Lt(translation[1], F32Neg(F32Div(F32(ScreenWidth), F32(2))))

C7_Witness ==
    /\ direction = 1
    /\ F32Lt(translation[1], F32Neg(F32Div(F32(ScreenWidth), F32(2))))

\* C8: a primary event processed in a world without a camera ends the
\* program in that invocation: the system panics, the projection is not
\* touched and no system runs afterwards.
C8_NoCameraAborts ==
    [][/\ ~panicked
       /\ (Processed /\ cameras = 0) =>
             (panicked' /\ projection' = projection)]_vars

C8_Witness ==
    /\ panicked
    /\ cameras = 0
    /\ last_run.window.primary

\* 6 * |x| <= 6 * Threshold + 1, exactly (x = m * 2^e; below 8 it holds).
WithinOvershoot(x) ==
    \/ x.e < -20
    \/ 6 * Abs(x.m) * 2^(x.e + 20) <= (6 * Threshold + 1) * 2^20

BeyondThreshold(x) ==
    F32Gt(x, F32(Threshold)) \/ F32Lt(x, F32(-Threshold))

\* C9: from the spawned state |x| <= (vw + 4)/2 + 1/6 always, and a tick
\* that flips ends inside the threshold, so the next tick does not flip.
C9_BoundedOvershoot ==
    /\ []WithinOvershoot(translation[1])
    /\ [][direction' # direction => ~BeyondThreshold(translation'[1])]_vars

C9_Witness ==
    /\ F32Gt(translation[1], F32(Threshold))
    /\ direction = 1

\* The letterbox geometry C10 speaks of, read off the state.
Vertical == projection.scaling_mode = "FixedVertical"

PadAxis == IF Vertical THEN 1 ELSE 2

OtherAxis == IF Vertical THEN 2 ELSE 1

Pad == letterboxes[0].scale[PadAxis]

ViewportExtent == IF Vertical THEN ScreenWidth ELSE ScreenHeight

C10_Common ==
    /\ Pad.m >= 0
    /\ Size2(letterboxes[0]) = Size2(letterboxes[1])
    /\ letterboxes[0].translation[PadAxis].m > 0
    /\ letterboxes[1].translation[PadAxis] =
         F32Neg(letterboxes[0].translation[PadAxis])
    /\ letterboxes[0].translation[OtherAxis] = F32Zero
    /\ letterboxes[1].translation[OtherAxis] = F32Zero

\* 2 * (position - pad/2 - v/2), in units of 2^-24.
InnerEdgeError ==
    2 * Fix(letterboxes[0].translation[PadAxis]) - Fix(Pad)
        - ViewportExtent * FixOne

AfterPrimary == projection.scaling_mode \in {"FixedVertical", "FixedHorizontal"}

\* C10 as stated: the inner edge lies exactly on the viewport boundary.
C10_ExactInnerEdge ==
    AfterPrimary => C10_Common /\ InnerEdgeError = 0

\* C10, amended: after a primary event is processed the pad is >= 0, the
\* letterboxes have the same size and mirrored positions, and the inner
\* edge is on the viewport boundary up to the rounding of (pad + v) / 2:
\* |position - pad/2 - v/2| <= 2^-25 * (pad + v).
C10_InnerEdgeWithinRounding ==
    AfterPrimary =>
        /\ C10_Common
        /\ Abs(InnerEdgeError) <=
             (Fix(Pad) + ViewportExtent * FixOne) \div FixOne

C10_Witness ==
    /\ last_run.window = Primary(<<600, 800>>)
    /\ projection.scaling_mode = "FixedHorizontal"
    /\ InnerEdgeError < 0

=============================================================================
